---- MODULE Spec2Model ----
(***************************************************************************)
(* A model of the Map CRDT (src/src/map.rs) and of the vector clock it is  *)
(* built on (src/src/vclock.rs).                                           *)
(*                                                                         *)
(* A VClock is the BTreeMap `dots`: a function whose domain is the set of  *)
(* actors stored.  A Map is the record [clock, entries, deferred]; entries *)
(* is a function from the keys present to Entry records [clock, val];      *)
(* deferred is a function from the clocks stored to sets of keys.          *)
(* Map is generic in its value type V.  The model instantiates it as the   *)
(* repository's tests do, with a Map nested in a Map: a Map of depth d     *)
(* holds values of depth d - 1, and depth 0 is a leaf value that carries   *)
(* no information.                                                         *)
(***************************************************************************)
EXTENDS Integers, FiniteSets, Sequences, TLC

\* ------------------------------------------------------------------ bounds

\* Replicas.
NumReplicas == 3
\* Actors: replicas 1..NumActors update, each as the actor of its own number;
\* every replica removes, receives ops and merges.
NumActors == 2
\* Keys of the outer Map.
NumKeys == 1
\* Keys of the nested Map.
NumInnerKeys == 1
NumWideKeys == 2
MaxLiteralCounter == 2
\* Ops synthesized in one behaviour.
MaxOps == 3
\* Calls of truncate in one behaviour.
MaxTruncates == 1
\* Nesting of the replicated Map: Map<K, Map<K, Leaf>>.
Depth == 2
\* Bits of a Counter (u64 in the source): counters are 0 .. MaxCounter.
CounterBits == 3
CounterModulus == 2 ^ CounterBits
MaxCounter == CounterModulus - 1

Replicas == 1..NumReplicas
Actors == 1..NumActors
Keys == 1..NumKeys
InnerKeys == 1..NumInnerKeys

\* ------------------------------------------------------------------ VClock

\* VClock::new
EmptyClock == [a \in {} |-> 0]

\* VClock::get
Get(c, a) == IF a \in DOMAIN c THEN c[a] ELSE 0

\* VClock::is_empty
IsEmpty(c) == DOMAIN c = {}

\* a witness without the test of line 160: the counter given is stored as it is
WitnessAlways(c, a, n) == [x \in DOMAIN c \cup {a} |-> IF x = a THEN n ELSE c[x]]

\* VClock::witness
Witness(c, a, n) ==
    IF ~(Get(c, a) >= n)
    THEN [x \in DOMAIN c \cup {a} |-> IF x = a THEN n ELSE c[x]]
    ELSE c

\* a merge that raises no counter: what merge would be without lines 133-135
VMergeNothing(c, other) == c

\* VClock::merge: witness every dot of other (the dots of other name
\* distinct actors, so the order of the loop does not matter).
VMerge(c, other) ==
    LET raised == {a \in DOMAIN other : ~(Get(c, a) >= other[a])}
    IN  [x \in DOMAIN c \cup raised |-> IF x \in raised THEN other[x] ELSE c[x]]

\* VClock::inc, line 183: the addition overflows when the counter is the
\* largest Counter.  A build with overflow checks panics there; a build
\* without them wraps to 0.
IncOverflows(c, a) == Get(c, a) = MaxCounter

\* VClock::inc (the dot returned when inc returns)
Inc(c, a) == [actor |-> a, counter |-> (Get(c, a) + 1) % CounterModulus]

\* VClock::intersection
Intersection(c, other) ==
    [x \in {a \in DOMAIN c : Get(other, a) = c[a]} |-> c[x]]

\* a subtract that forgets an actor only when other's counter is strictly larger
SubtractStrict(c, other) ==
    [x \in {a \in DOMAIN c : ~(a \in DOMAIN other /\ other[a] > Get(c, a))} |-> c[x]]

\* VClock::subtract
Subtract(c, other) ==
    [x \in {a \in DOMAIN c : ~(a \in DOMAIN other /\ other[a] >= Get(c, a))} |-> c[x]]

Min(x, y) == IF x <= y THEN x ELSE y

\* a truncate that prunes the actors other lacks but lowers no counter
VTruncateKeep(c, other) == [x \in {a \in DOMAIN c : Get(other, a) > 0} |-> c[x]]

\* Causal::truncate for VClock
VTruncate(c, other) ==
    [x \in {a \in DOMAIN c : Min(c[a], Get(other, a)) > 0} |-> Min(c[x], Get(other, x))]

\* a partial_cmp without the equality test of lines 61-62
PartialCmpUnequal(c, other) ==
    IF \A w \in DOMAIN other : Get(c, w) >= other[w] THEN "Greater"
    ELSE IF \A w \in DOMAIN c : Get(other, w) >= c[w] THEN "Less"
    ELSE "None"

\* PartialOrd::partial_cmp for VClock
PartialCmp(c, other) ==
    IF c = other THEN "Equal"
    ELSE IF \A w \in DOMAIN other : Get(c, w) >= other[w] THEN "Greater"
    ELSE IF \A w \in DOMAIN c : Get(other, w) >= c[w] THEN "Less"
    ELSE "None"

\* `c <= other` as PartialOrd derives it from partial_cmp
Leq(c, other) == PartialCmp(c, other) \in {"Less", "Equal"}

\* VClock::concurrent
Concurrent(c, other) == PartialCmp(c, other) = "None"

\* From<Dot> for VClock
DotClock(dot) == Witness(EmptyClock, dot.actor, dot.counter)

\* ------------------------------------------------------------------ Map

\* The leaf value type: no state; apply, merge and truncate change nothing.
Leaf == [leaf |-> TRUE]
LeafOp == [type |-> "LeafOp"]

\* Map::new
NewMap == [clock |-> EmptyClock,
           entries |-> [k \in {} |-> 0],
           deferred |-> [c \in {} |-> {}]]

\* V::default() for the value type of a Map of depth d + 1
ValDefault(d) == IF d = 0 THEN Leaf ELSE NewMap

\* `deferred` is a HashMap: the order in which a loop visits its records is
\* not fixed by the program.  The model lets every operation visit them in
\* ascending or in descending order of ClockRank, so that any two records
\* are visited in both orders.  The key sets are BTreeSets, visited in
\* ascending key order.
VisitOrders == {"asc", "desc"}

RankBase == MaxOps + 2

RECURSIVE ClockRankOver(_, _)
ClockRankOver(c, S) ==
    IF S = {} THEN 0
    ELSE LET a == CHOOSE x \in S : TRUE
         IN  c[a] * RankBase ^ (a - 1) + ClockRankOver(c, S \ {a})

ClockRank(c) == ClockRankOver(c, DOMAIN c)

\* whether clock c is visited before clock e
Before(c, e, ord) ==
    IF ord = "asc" THEN ClockRank(c) < ClockRank(e) ELSE ClockRank(c) > ClockRank(e)

\* the first and the last visited clock of a non-empty set of clocks
FirstVisited(S, ord) == CHOOSE c \in S : \A e \in S \ {c} : Before(c, e, ord)
LastVisited(S, ord) == CHOOSE c \in S : \A e \in S \ {c} : Before(e, c, ord)

\* the (clock, key) pairs of a deferred map
DeferredPairs(def) ==
    UNION {{[clock |-> c, key |-> k] : k \in def[c]} : c \in DOMAIN def}

\* the pair a nested loop over (clock, keys) records and their keys visits first
FirstPair(pairs, ord) ==
    LET c == FirstVisited({p.clock : p \in pairs}, ord)
        k == CHOOSE k \in {p.key : p \in {q \in pairs : q.clock = c}} :
                 \A p \in pairs : p.clock = c => k <= p.key
    IN  [clock |-> c, key |-> k]

\* BTreeMap::remove
RemoveKey(f, k) == [x \in DOMAIN f \ {k} |-> f[x]]

\* BTreeMap::insert / HashMap::insert
Insert(f, k, v) == [x \in DOMAIN f \cup {k} |-> IF x = k THEN v ELSE f[x]]

\* lines 147-154 of Map truncate: the rewrite of deferred.  Records whose
\* remainders collide overwrite each other; the last one visited stays.
TruncateDeferred(def, clock, ord) ==
    LET rem(r) == Subtract(r, clock)
        kept == {rem(r) : r \in DOMAIN def} \ {EmptyClock}
    IN  [x \in kept |-> def[LastVisited({r \in DOMAIN def : rem(r) = x}, ord)]]

RECURSIVE Truncate(_, _, _, _)
RECURSIVE ApplyRm(_, _, _, _, _)
RECURSIVE ApplyRmAll(_, _, _, _)
RECURSIVE Apply(_, _, _, _)
RECURSIVE Merge(_, _, _, _)

\* V::truncate, V::apply, V::merge for a value of depth d
ValTruncate(v, clock, d, ord) == IF d = 0 THEN v ELSE Truncate(v, clock, d, ord)
ValApply(v, op, d, ord) == IF d = 0 THEN v ELSE Apply(v, op, d, ord)
ValMerge(v, w, d, ord) == IF d = 0 THEN v ELSE Merge(v, w, d, ord)

\* a truncate without the removal of lines 143-145: an entry whose clock
\* becomes empty stays
TruncateKeepEntries(m, clock, d, ord) ==
    [clock |-> Subtract(m.clock, clock),
     entries |-> [k \in DOMAIN m.entries |->
                    [clock |-> Subtract(m.entries[k].clock, clock),
                     val |-> IF IsEmpty(Subtract(m.entries[k].clock, clock))
                             THEN m.entries[k].val
                             ELSE ValTruncate(m.entries[k].val, clock, d - 1, ord)]],
     deferred |-> TruncateDeferred(m.deferred, clock, ord)]

\* Causal::truncate for Map
Truncate(m, clock, d, ord) ==
    LET sub(k) == Subtract(m.entries[k].clock, clock)
        kept == {k \in DOMAIN m.entries : ~IsEmpty(sub(k))}
    IN  [clock |-> Subtract(m.clock, clock),
         entries |-> [k \in kept |->
                        [clock |-> sub(k),
                         val |-> ValTruncate(m.entries[k].val, clock, d - 1, ord)]],
         deferred |-> TruncateDeferred(m.deferred, clock, ord)]

\* an apply_rm that, when it defers the remove, leaves the entry as it is
ApplyRmDeferOnly(m, key, clock, d, ord) ==
    IF ~Leq(clock, m.clock)
    THEN [m EXCEPT !.deferred =
              Insert(m.deferred, clock,
                     (IF clock \in DOMAIN m.deferred THEN m.deferred[clock] ELSE {})
                         \cup {key})]
    ELSE IF key \in DOMAIN m.entries
    THEN LET ec == Subtract(m.entries[key].clock, clock)
         IN  IF ~IsEmpty(ec)
             THEN [m EXCEPT !.entries =
                       Insert(m.entries, key,
                              [clock |-> ec,
                               val |-> ValTruncate(m.entries[key].val, clock, d - 1, ord)])]
             ELSE [m EXCEPT !.entries = RemoveKey(m.entries, key)]
    ELSE m

\* an apply_rm without the test of line 337: every remove is listed in
\* deferred
ApplyRmAlwaysListed(m, key, clock, d, ord) ==
    LET listed == Insert(m.deferred, clock,
                         (IF clock \in DOMAIN m.deferred THEN m.deferred[clock] ELSE {})
                             \cup {key})
    IN  IF key \in DOMAIN m.entries
        THEN LET ec == Subtract(m.entries[key].clock, clock)
             IN  IF ~IsEmpty(ec)
                 THEN [clock |-> m.clock,
                       entries |-> Insert(m.entries, key,
                                          [clock |-> ec,
                                           val |-> ValTruncate(m.entries[key].val, clock, d - 1, ord)]),
                       deferred |-> listed]
                 ELSE [clock |-> m.clock, entries |-> RemoveKey(m.entries, key),
                       deferred |-> listed]
        ELSE [clock |-> m.clock, entries |-> m.entries, deferred |-> listed]

\* Map::apply_rm
ApplyRm(m, key, clock, d, ord) ==
    LET deferred1 ==
            IF ~Leq(clock, m.clock)
            THEN Insert(m.deferred, clock,
                        (IF clock \in DOMAIN m.deferred THEN m.deferred[clock] ELSE {})
                            \cup {key})
            ELSE m.deferred
        entries1 ==
            IF key \in DOMAIN m.entries
            THEN LET existing == m.entries[key]
                     ec == Subtract(existing.clock, clock)
                 IN  IF ~IsEmpty(ec)
                     THEN Insert(m.entries, key,
                                 [clock |-> ec,
                                  val |-> ValTruncate(existing.val, clock, d - 1, ord)])
                     ELSE RemoveKey(m.entries, key)
            ELSE m.entries
    IN  [clock |-> m.clock, entries |-> entries1, deferred |-> deferred1]

\* a loop of apply_rm calls over (clock, key) pairs, in visiting order
ApplyRmAll(m, pairs, d, ord) ==
    IF pairs = {} THEN m
    ELSE LET p == FirstPair(pairs, ord)
         IN  ApplyRmAll(ApplyRm(m, p.key, p.clock, d, ord), pairs \ {p}, d, ord)

\* an apply_deferred that drains nothing: the records stay listed
ApplyDeferredNothing(m, d, ord) == m

\* Map::apply_deferred
ApplyDeferred(m, d, ord) ==
    ApplyRmAll([m EXCEPT !.deferred = NewMap.deferred], DeferredPairs(m.deferred), d, ord)

\* lines 175-186 of apply: an Up whose dot the Map has not seen
ApplyUp(m, op, d, ord) ==
    LET entry == IF op.key \in DOMAIN m.entries
                 THEN m.entries[op.key]
                 ELSE [clock |-> EmptyClock, val |-> ValDefault(d - 1)]
        entry1 == [clock |-> Witness(entry.clock, op.dot.actor, op.dot.counter),
                   val |-> ValApply(entry.val, op.op, d - 1, ord)]
    IN  ApplyDeferred([clock |-> Witness(m.clock, op.dot.actor, op.dot.counter),
                       entries |-> Insert(m.entries, op.key, entry1),
                       deferred |-> m.deferred], d, ord)

\* an apply without the early return of lines 170-173 for a dot already seen
ApplyAgain(m, op, d, ord) ==
    IF op.type = "Nop" THEN m
    ELSE IF op.type = "Rm" THEN ApplyRm(m, op.key, op.clock, d, ord)
    ELSE ApplyUp(m, op, d, ord)

\* CmRDT::apply for Map
Apply(m, op, d, ord) ==
    IF op.type = "Nop" THEN m
    ELSE IF op.type = "Rm" THEN ApplyRm(m, op.key, op.clock, d, ord)
    ELSE IF Get(m.clock, op.dot.actor) >= op.dot.counter THEN m
    ELSE ApplyUp(m, op, d, ord)

\* lines 198-211 of merge without the truncate of line 208: the value keeps
\* what the other map has deleted
MergeOneSidedWhole(entry, otherClock, d, ord) ==
    LET ec == Subtract(entry.clock, otherClock)
    IN  [keep |-> ~IsEmpty(ec), entry |-> [clock |-> ec, val |-> entry.val]]

\* lines 198-211 of merge: an entry of self whose key other does not hold
\* (and, with the two maps swapped, lines 244-252: an entry only other holds)
MergeOneSided(entry, otherClock, d, ord) ==
    LET ec == Subtract(entry.clock, otherClock)
        actors_who_have_deleted_this_entry == Subtract(otherClock, ec)
    IN  [keep |-> ~IsEmpty(ec),
         entry |-> [clock |-> ec,
                    val |-> ValTruncate(entry.val, actors_who_have_deleted_this_entry,
                                        d - 1, ord)]]

\* lines 213-237 of merge: an entry present in both maps
MergeBoth(entry, other_entry, selfClock, otherClock, d, ord) ==
    LET common0 == Intersection(entry.clock, other_entry.clock)
        ec == Subtract(Subtract(entry.clock, common0), otherClock)
        oc == Subtract(Subtract(other_entry.clock, common0), selfClock)
        common == VMerge(VMerge(common0, ec), oc)
        actors_who_have_deleted_this_entry == Subtract(VMerge(ec, oc), common)
    IN  [keep |-> ~IsEmpty(common),
         entry |-> [clock |-> common,
                    val |-> IF IsEmpty(common) THEN entry.val
                            ELSE ValTruncate(ValMerge(entry.val, other_entry.val, d - 1, ord),
                                             actors_who_have_deleted_this_entry,
                                             d - 1, ord)]]

\* lines 194-253 of merge: the entries kept
MergeKeep(self, other, d, ord) ==
    LET res(k) ==
            IF k \in DOMAIN self.entries /\ k \in DOMAIN other.entries
            THEN MergeBoth(self.entries[k], other.entries[k], self.clock, other.clock, d, ord)
            ELSE IF k \in DOMAIN self.entries
            THEN MergeOneSided(self.entries[k], other.clock, d, ord)
            ELSE MergeOneSided(other.entries[k], self.clock, d, ord)
        kept == {k \in DOMAIN self.entries \cup DOMAIN other.entries : res(k).keep}
    IN  [k \in kept |-> res(k).entry]

\* a merge without the replay of lines 255-260: other's deferred removes
\* are not taken over
MergeNoReplay(self, other, d, ord) ==
    ApplyDeferred([clock |-> VMerge(self.clock, other.clock),
                   entries |-> MergeKeep(self, other, d, ord),
                   deferred |-> self.deferred], d, ord)

\* CvRDT::merge for Map
Merge(self, other, d, ord) ==
    LET keep == MergeKeep(self, other, d, ord)
        \* lines 255-260: other's deferred removes, replayed on self
        replayed == ApplyRmAll(self, DeferredPairs(other.deferred), d, ord)
    IN  ApplyDeferred([clock |-> VMerge(self.clock, other.clock),
                       entries |-> keep,
                       deferred |-> replayed.deferred], d, ord)

\* The visiting order is observable only when a loop meets two records: the
\* orders to explore for an operation on the maps ms (of depth d).
RECURSIVE ManyDeferred(_, _)
ManyDeferred(m, d) ==
    \/ Cardinality(DOMAIN m.deferred) >= 2
    \/ d > 1 /\ \E k \in DOMAIN m.entries : ManyDeferred(m.entries[k].val, d - 1)

OrdersFor(ms) ==
    IF \E m \in ms : ManyDeferred(m, Depth) THEN VisitOrders ELSE {"asc"}

\* ------------------------------------------------------------------ ops

\* the ReadCtx of Map::len, whose two clocks are the Map's clock
GetCtxLen(m, k) == [add_clock |-> m.clock, rm_clock |-> m.clock]

\* Map::get: the ReadCtx of key k (val left out: the model reads it from m)
GetCtx(m, k) ==
    [add_clock |-> m.clock,
     rm_clock |-> IF k \in DOMAIN m.entries THEN m.entries[k].clock ELSE EmptyClock]

\* Map::rm with the RmCtx derived from get(k)
RmOp(m, k) == [type |-> "Rm", clock |-> GetCtx(m, k).rm_clock, key |-> k]

\* Map::update: Up{dot: ctx.dot, key, op: f(&val, ctx)}
UpOp(dot, k, op) == [type |-> "Up", dot |-> dot, key |-> k, op |-> op]

\* The updaters f(&val, ctx) a caller of update may pass for a nested Map
\* value: an update of an inner key with the same AddCtx, or the
\* removal of an inner key with the RmCtx read from val.
InnerOps(val, dot) ==
    {UpOp(dot, ik, LeafOp) : ik \in InnerKeys}
        \cup {RmOp(val, ik) : ik \in DOMAIN val.entries}

\* ------------------------------------------------------------------ system

VARIABLES
    rep,     \* rep[r]: the Map of replica r
    sent,    \* the ops synthesized so far, each with the ops its author had applied
    seen,    \* seen[r]: the ops applied to replica r
    truncs,  \* the truncate calls made so far
    cu, cv,  \* two clocks built through the operations of VClock
    applied  \* the ops applied by a replica that passes them to nobody

vars == <<rep, sent, seen, truncs, cu, cv, applied>>

Init ==
    /\ rep = [r \in Replicas |-> NewMap]
    /\ sent = {}
    /\ seen = [r \in Replicas |-> {}]
    /\ truncs = 0
    /\ cu = EmptyClock
    /\ cv = EmptyClock
    /\ applied = 0

\* The clocks an operation stores as keys of deferred, each with the Map's
\* clock at the moment it is stored.
\* the clock apply_rm stores (lines 337-341) when it runs on m
RmStores(m, clock) ==
    IF ~Leq(clock, m.clock) THEN {[clock |-> clock, at |-> m.clock]} ELSE {}

\* the clocks apply_deferred stores again when it runs on m
DrainStores(m) ==
    UNION {RmStores(m, c) : c \in DOMAIN m.deferred}

\* the clocks an apply of op to m stores
ApplyStores(m, op, ord) ==
    IF op.type = "Rm" THEN RmStores(m, op.clock)
    ELSE IF op.type = "Up" /\ ~(Get(m.clock, op.dot.actor) >= op.dot.counter)
    THEN DrainStores(Apply(m, op, Depth, ord))
    ELSE {}

\* the clocks m.merge(other) stores: the replay of other's deferred, then the drain
MergeStores(m, other, ord) ==
    UNION {RmStores(m, c) : c \in DOMAIN other.deferred}
        \cup DrainStores(Merge(m, other, Depth, ord))

\* the clocks m.truncate(clock) stores (line 154, before line 156 changes m.clock)
TruncateStores(m, clock, ord) ==
    {[clock |-> c, at |-> m.clock] : c \in DOMAIN Truncate(m, clock, Depth, ord).deferred}

\* Replica r synthesizes op through the context protocol and applies it.
Synthesize(r, op, ord) ==
    /\ Cardinality(sent) < MaxOps
    /\ rep' = [rep EXCEPT ![r] = Apply(rep[r], op, Depth, ord)]
    /\ sent' = sent \cup {[op |-> op, deps |-> seen[r]]}
    /\ seen' = [seen EXCEPT ![r] = seen[r] \cup {op}]
    /\ UNCHANGED <<truncs, cu, cv, applied>>

\* update(k, get(k).derive_add_ctx(r), f) followed by apply
DoUpdate(r) ==
    \E k \in Keys, ord \in OrdersFor({rep[r]}) :
        LET dot == Inc(GetCtx(rep[r], k).add_clock, r)
            val == IF k \in DOMAIN rep[r].entries
                   THEN rep[r].entries[k].val ELSE ValDefault(Depth - 1)
        IN  \E inner \in InnerOps(val, dot) : Synthesize(r, UpOp(dot, k, inner), ord)

\* rm(k, get(k).derive_rm_ctx()) followed by apply
DoRm(r) ==
    \E k \in DOMAIN rep[r].entries, ord \in OrdersFor({rep[r]}) :
        Synthesize(r, RmOp(rep[r], k), ord)

\* the ops synthesized so far
Ops == {s.op : s \in sent}

\* Replica r applies op.
Receive(r, op, ord) ==
    /\ rep' = [rep EXCEPT ![r] = Apply(rep[r], op, Depth, ord)]
    /\ seen' = [seen EXCEPT ![r] = seen[r] \cup {op}]
    /\ UNCHANGED <<sent, truncs, cu, cv, applied>>

\* An op is delivered to replica r, in any order and any number of times.
Deliver(r) ==
    \E op \in Ops, ord \in OrdersFor({rep[r]}) : Receive(r, op, ord)

\* An op is delivered to replica r once r has applied every op its author
\* had applied when synthesizing it (causal delivery).
DeliverCausal(r) ==
    \E s \in sent, ord \in OrdersFor({rep[r]}) :
        /\ s.deps \subseteq seen[r]
        /\ Receive(r, s.op, ord)

\* Replica r merges the state of replica q.
DoMerge(r) ==
    \E q \in Replicas \ {r} : \E ord \in OrdersFor({rep[r], rep[q]}) :
        /\ rep' = [rep EXCEPT ![r] = Merge(rep[r], rep[q], Depth, ord)]
        /\ seen' = [seen EXCEPT ![r] = seen[r] \cup seen[q]]
        /\ UNCHANGED <<sent, truncs, cu, cv, applied>>

\* the clocks truncate is called with: a replica's clock or an entry's clock
TruncateClocks ==
    {rep[q].clock : q \in Replicas}
        \cup UNION {{rep[q].entries[k].clock : k \in DOMAIN rep[q].entries} : q \in Replicas}

\* Replica r truncates its Map.
DoTruncate(r) ==
    \E clock \in TruncateClocks, ord \in OrdersFor({rep[r]}) :
        /\ truncs < MaxTruncates
        /\ truncs' = truncs + 1
        /\ rep' = [rep EXCEPT ![r] = Truncate(rep[r], clock, Depth, ord)]
        /\ UNCHANGED <<sent, seen, cu, cv, applied>>

\* apply only, ops delivered in causal order
NextCausal ==
    \/ \E r \in Actors : DoUpdate(r)
    \/ \E r \in Replicas : DoRm(r) \/ DeliverCausal(r)
SpecCausal == Init /\ [][NextCausal]_vars

\* apply and merge
NextMerge ==
    \/ \E r \in Actors : DoUpdate(r)
    \/ \E r \in Replicas : DoRm(r) \/ Deliver(r) \/ DoMerge(r)
SpecMerge == Init /\ [][NextMerge]_vars

\* apply, merge and truncate
Next ==
    \/ \E r \in Actors : DoUpdate(r)
    \/ \E r \in Replicas : DoRm(r) \/ Deliver(r) \/ DoMerge(r) \/ DoTruncate(r)
Spec == Init /\ [][Next]_vars

\* the keys of a Map with more than one key
WideKeys == 1..NumWideKeys

\* the clocks of the Rm ops written out by hand, as in
\* test_op_exchange_converges_quickcheck1 (Dot{actor: 1, counter: 2}.into())
LiteralClocks ==
    UNION {[S -> 1..MaxLiteralCounter] : S \in (SUBSET Actors) \ {{}}}

\* Replica r applies op and passes it to nobody: the replicas exchange
\* states, by merge.
ApplyLocal(r, op, ord) ==
    /\ applied < MaxOps
    /\ applied' = applied + 1
    /\ rep' = [rep EXCEPT ![r] = Apply(rep[r], op, Depth, ord)]
    /\ UNCHANGED <<sent, seen, truncs, cu, cv>>

\* update(k, get(k).derive_add_ctx(r), f) followed by apply, on a Map of
\* several keys
LocalUpdate(r) ==
    \E k \in WideKeys, ord \in OrdersFor({rep[r]}) :
        LET dot == Inc(GetCtx(rep[r], k).add_clock, r)
            val == IF k \in DOMAIN rep[r].entries
                   THEN rep[r].entries[k].val ELSE ValDefault(Depth - 1)
        IN  \E inner \in InnerOps(val, dot) : ApplyLocal(r, UpOp(dot, k, inner), ord)

\* rm(k, get(k).derive_rm_ctx()) followed by apply
LocalRm(r) ==
    \E k \in DOMAIN rep[r].entries, ord \in OrdersFor({rep[r]}) :
        ApplyLocal(r, RmOp(rep[r], k), ord)

\* the Op::Rm values built from their fields
LiteralRms == {[type |-> "Rm", clock |-> clock, key |-> k] : clock \in LiteralClocks, k \in WideKeys}

\* Replica r applies an Op::Rm built from its fields.
LiteralRm(r) ==
    \E op \in LiteralRms, ord \in OrdersFor({rep[r]}) : ApplyLocal(r, op, ord)

\* apply, merge and truncate on a Map of several keys, with the Rm ops built
\* from their fields
NextLiteral ==
    \/ \E r \in Actors : LocalUpdate(r)
    \/ \E r \in Actors : LocalRm(r) \/ LiteralRm(r) \/ DoMerge(r) \/ DoTruncate(r)
SpecLiteral == Init /\ [][NextLiteral]_vars

\* --------------------------------------------------------------- clock system

\* the (actor, counter) pairs a clock is built from, counter 0 included
Pairs == {<<a, n>> : a \in Actors, n \in 0..MaxCounter}

\* FromIterator for VClock: a witness of every pair, in order
RECURSIVE FromIter(_)
FromIter(pairs) ==
    IF pairs = <<>> THEN EmptyClock
    ELSE LET n == Len(pairs)
         IN  Witness(FromIter(SubSeq(pairs, 1, n - 1)), pairs[n][1], pairs[n][2])

\* cu takes the value c; the Maps stay as they are
SetClock(c) ==
    /\ cu' = c
    /\ UNCHANGED <<rep, sent, seen, truncs, cv, applied>>

\* cu.witness(a, n), which is also cu.apply(Dot{a, n})
ClockWitness == \E p \in Pairs : SetClock(Witness(cu, p[1], p[2]))
\* cu.merge(&cv)
ClockMerge == SetClock(VMerge(cu, cv))
\* cu = cu.intersection(&cv)
ClockIntersection == SetClock(Intersection(cu, cv))
\* cu.subtract(&cv)
ClockSubtract == SetClock(Subtract(cu, cv))
\* cu.truncate(&cv)
ClockTruncate == SetClock(VTruncate(cu, cv))
\* cu = pairs.into_iter().collect()
ClockFromIter == \E p, q \in Pairs : SetClock(FromIter(<<p, q>>))
\* the two clocks change roles
ClockSwap ==
    /\ cu' = cv
    /\ cv' = cu
    /\ UNCHANGED <<rep, sent, seen, truncs, applied>>

\* the operations of VClock on two clocks that start as VClock::new()
NextClock ==
    \/ ClockWitness \/ ClockMerge \/ ClockIntersection \/ ClockSubtract
    \/ ClockTruncate \/ ClockFromIter \/ ClockSwap
SpecClock == Init /\ [][NextClock]_vars

\* ------------------------------------------------------------------ properties

\* Op::Nop
NopOp == [type |-> "Nop"]

\* the Up ops synthesized so far, and their dots
Ups == {op \in Ops : op.type = "Up"}
Dots == {op.dot : op \in Ups}

\* the record (clock, key) is listed in m.deferred
Listed(m, clock, key) == clock \in DOMAIN m.deferred /\ key \in m.deferred[clock]

\* m's entry for key holds no dot that clock dominates, and does not exist
\* when no dot remains
Removed(m, clock, key) ==
    key \in DOMAIN m.entries =>
        /\ ~IsEmpty(m.entries[key].clock)
        /\ \A a \in DOMAIN m.entries[key].clock : m.entries[key].clock[a] > Get(clock, a)

\* C1 -- op commutativity: two replicas that started equal and have applied
\* the same ops, in whatever orders, are equal.
OpCommutativity ==
    \A r, q \in Replicas : seen[r] = seen[q] => rep[r] = rep[q]

\* C2 -- merge commutativity: for any two replica states A and B, A.merge(B)
\* and B.merge(A) are equal.
MergeCommutativity ==
    \A r, q \in Replicas : \A o1, o2 \in OrdersFor({rep[r], rep[q]}) :
        Merge(rep[r], rep[q], Depth, o1) = Merge(rep[q], rep[r], Depth, o2)

\* C3 -- op/state equivalence: merging into a replica the state of a replica
\* that has applied a subset of its ops changes nothing.
OpStateEquivalence ==
    \A r, q \in Replicas : \A ord \in OrdersFor({rep[r], rep[q]}) :
        seen[q] \subseteq seen[r] => Merge(rep[r], rep[q], Depth, ord) = rep[r]

\* the states one more apply of an Up or one more merge can take replica r to
AfterArrival(r) ==
    {Apply(rep[r], op, Depth, ord) : op \in Ups, ord \in OrdersFor({rep[r]})}
        \cup UNION {{Merge(rep[r], rep[q], Depth, ord) : ord \in OrdersFor({rep[r], rep[q]})}
                        : q \in Replicas}

\* C4 -- causal delivery via deferred: an Rm whose clock is not <= the
\* replica's clock is recorded in deferred under that clock; and whenever an
\* apply of an Up or a merge makes the replica's clock dominate the clock of
\* a record, the record is no longer listed and the entry for its key holds
\* no dot the clock dominates (and is absent if none remain).
CausalDeliveryViaDeferred ==
    \A r \in Replicas :
        /\ \A op \in Ops : \A ord \in OrdersFor({rep[r]}) :
              (op.type = "Rm" /\ ~Leq(op.clock, rep[r].clock))
                  => Listed(Apply(rep[r], op, Depth, ord), op.clock, op.key)
        /\ \A p \in DeferredPairs(rep[r].deferred) : \A n \in AfterArrival(r) :
              Leq(p.clock, n.clock)
                  => ~Listed(n, p.clock, p.key) /\ Removed(n, p.clock, p.key)

\* a replica holds a deferred remove of a key whose missing dots another
\* replica holds in its entry for that key: a merge brings them
DeferredRemoveResolvable ==
    \E r, q \in Replicas : \E p \in DeferredPairs(rep[r].deferred) :
        /\ p.key \in DOMAIN rep[q].entries
        /\ ~IsEmpty(Intersection(rep[q].entries[p.key].clock, p.clock))
        /\ Leq(p.clock, VMerge(rep[r].clock, rep[q].clock))
        /\ \E op \in Ups : Leq(p.clock, Apply(rep[r], op, Depth, "asc").clock)

\* the value v holds no dot that clock dominates
Forgotten(v, clock) ==
    /\ \A a \in DOMAIN v.clock : v.clock[a] > Get(clock, a)
    /\ \A ik \in DOMAIN v.entries :
          \A a \in DOMAIN v.entries[ik].clock : v.entries[ik].clock[a] > Get(clock, a)

\* the value v reflects the update op carrying dot: the inner key it updates
\* holds exactly that dot, the inner key it removes is absent
Reflects(v, op, dot) ==
    IF op.type = "Up"
    THEN /\ op.key \in DOMAIN v.entries
         /\ v.entries[op.key] = [clock |-> DotClock(dot), val |-> Leaf]
    ELSE op.key \notin DOMAIN v.entries

\* X and its clone Y are replica r; X removes key with the entry's clock, Y
\* applies an update of key carrying the next dot of actor, and the two merge
ResetRemoveAt(r, key, actor) ==
    LET C == rep[r].entries[key].clock
        d == Inc(GetCtx(rep[r], key).add_clock, actor)
        X == Apply(rep[r], RmOp(rep[r], key), Depth, "asc")
    IN  \A inner \in InnerOps(rep[r].entries[key].val, d) :
          LET Y == Apply(rep[r], UpOp(d, key, inner), Depth, "asc")
          IN  \A M \in {Merge(X, Y, Depth, "asc"), Merge(Y, X, Depth, "asc")} :
                /\ key \in DOMAIN M.entries
                /\ M.entries[key].clock = DotClock(d)
                /\ Forgotten(M.entries[key].val, C)
                /\ Reflects(M.entries[key].val, inner, d)

ClockDominance ==
    \A r \in Replicas : \A k \in DOMAIN rep[r].entries :
        \A a \in DOMAIN rep[r].entries[k].clock :
            Get(rep[r].clock, a) >= rep[r].entries[k].clock[a]

\* a Map whose clock a truncate has cut below a dot the Map had applied
\* still holds an entry
EntryAfterTruncate ==
    /\ truncs = 1
    /\ \E r \in Replicas : \E op \in Ups :
          /\ op \in seen[r]
          /\ Get(rep[r].clock, op.dot.actor) < op.dot.counter
          /\ DOMAIN rep[r].entries # {}

\* C7 -- op idempotence: applying an op (Nop, Rm or Up) twice in a row leaves
\* the same state as applying it once.
OpIdempotence ==
    \A r \in Replicas : \A op \in Ops \cup {NopOp} : \A o1, o2 \in OrdersFor({rep[r]}) :
        LET once == Apply(rep[r], op, Depth, o1)
        IN  Apply(once, op, Depth, o2) = once

\* a replica has applied an Up whose entry is gone since, and holds a
\* deferred remove: a second apply of the Up must leave the entry out
DuplicateOfRemovedUp ==
    \E r \in Replicas : \E op \in Ups :
        /\ op \in seen[r]
        /\ op.key \notin DOMAIN rep[r].entries
        /\ \E rm \in Ops : rm.type = "Rm" /\ ~(rm \in seen[r])

\* C8 -- merge associativity: for any three replica states A, B, C,
\* (A.merge(B)).merge(C) equals A.merge(B.merge(C)).
MergeAssociativity ==
    \A r, q, t \in Replicas :
        Merge(Merge(rep[r], rep[q], Depth, "asc"), rep[t], Depth, "asc")
            = Merge(rep[r], Merge(rep[q], rep[t], Depth, "asc"), Depth, "asc")

\* C9 -- merge idempotence: A.merge(A) leaves A unchanged.
MergeIdempotence ==
    \A r \in Replicas : \A ord \in OrdersFor({rep[r]}) :
        Merge(rep[r], rep[r], Depth, ord) = rep[r]

\* C10 -- every clock stored as a key of deferred is not <= the Map's clock
\* at the moment it is stored, whether an apply, a merge or a truncate
\* stores it.
DeferredStoredAhead ==
    \A r \in Replicas :
        /\ \A op \in Ops : \A ord \in OrdersFor({rep[r]}) :
              \A e \in ApplyStores(rep[r], op, ord) : ~Leq(e.clock, e.at)
        /\ \A q \in Replicas : \A ord \in OrdersFor({rep[r], rep[q]}) :
              \A e \in MergeStores(rep[r], rep[q], ord) : ~Leq(e.clock, e.at)
        /\ \A clock \in TruncateClocks : \A ord \in OrdersFor({rep[r]}) :
              \A e \in TruncateStores(rep[r], clock, ord) : ~Leq(e.clock, e.at)

\* u.get(a) <= v.get(a) for every actor a
Below(x, y) == \A a \in Actors : Get(x, a) <= Get(y, a)

\* C13 -- VClock order: partial_cmp is Equal iff the clocks are identical,
\* Less iff every counter is <= with one strictly smaller, Greater
\* symmetrically, None otherwise; u <= v iff every counter is <=; concurrent
\* iff neither u <= v nor v <= u; against the empty clock the answer is
\* Greater or Equal.
ClockOrder ==
    /\ PartialCmp(cu, cv) = "Equal" <=> cu = cv
    /\ PartialCmp(cu, cv) = "Less"
          <=> (Below(cu, cv) /\ \E a \in Actors : Get(cu, a) < Get(cv, a))
    /\ PartialCmp(cu, cv) = "Greater"
          <=> (Below(cv, cu) /\ \E a \in Actors : Get(cv, a) < Get(cu, a))
    /\ PartialCmp(cu, cv) = "None" <=> (~Below(cu, cv) /\ ~Below(cv, cu))
    /\ Leq(cu, cv) <=> Below(cu, cv)
    /\ Concurrent(cu, cv) <=> (~Leq(cu, cv) /\ ~Leq(cv, cu))
    /\ PartialCmp(cu, EmptyClock) \in {"Greater", "Equal"}

\* two clocks, each ahead of the other for one actor they both hold
ClocksConcurrent ==
    /\ DOMAIN cu = Actors
    /\ DOMAIN cv = Actors
    /\ \E a, b \in Actors : cu[a] < cv[a] /\ cv[b] < cu[b]

\* the componentwise minimum of two clocks, zero counters pruned
MinClock(x, y) ==
    [a \in {b \in Actors : Min(Get(x, b), Get(y, b)) > 0} |-> Min(Get(x, a), Get(y, a))]

\* C14 -- VClock truncate meet law: u truncated by v equals v truncated by
\* u, both are the componentwise minimum with zeros pruned, and truncating
\* by a clock that dominates self changes nothing.
TruncateMeet ==
    /\ VTruncate(cu, cv) = VTruncate(cv, cu)
    /\ VTruncate(cu, cv) = MinClock(cu, cv)
    /\ Below(cu, cv) => VTruncate(cu, cv) = cu

\* one clock holds an actor the other lacks, and a larger counter for an
\* actor they share
TruncateLowersAndPrunes ==
    \E a, b \in Actors :
        /\ a \in DOMAIN cu /\ a \notin DOMAIN cv
        /\ b \in DOMAIN cu /\ b \in DOMAIN cv /\ cu[b] > cv[b]

\* C15 -- VClock subtract: after self.subtract(v) an actor is present iff it
\* was present and v.get(a) < the old self.get(a), and keeps its counter;
\* {1->5, 2->3} minus {1->5} is {2->3}, minus {1->4} is unchanged.
SubtractLaw ==
    LET c == (1 :> 5) @@ (2 :> 3)
    IN  /\ \A a \in Actors :
              a \in DOMAIN Subtract(cu, cv) <=> (a \in DOMAIN cu /\ Get(cv, a) < Get(cu, a))
        /\ \A a \in DOMAIN Subtract(cu, cv) : Subtract(cu, cv)[a] = cu[a]
        /\ cu = c => /\ Subtract(cu, 1 :> 5) = (2 :> 3)
                     /\ Subtract(cu, 1 :> 4) = c

\* the clock of the example, with an argument that equals one of its
\* counters
SubtractExample ==
    /\ cu = (1 :> 5) @@ (2 :> 3)
    /\ cv = (1 :> 5)

\* C16 -- VClock no-zero invariant: no clock built by witness, apply, merge,
\* intersection, subtract, truncate or from an iterator of pairs (counter 0
\* included) stores a counter 0; and witness, apply and merge lower no
\* counter.
NoZeroCounter ==
    /\ \A a \in DOMAIN cu : cu[a] > 0
    /\ \A a \in DOMAIN cv : cv[a] > 0
    /\ \A p \in Pairs : \A a \in Actors : Get(Witness(cu, p[1], p[2]), a) >= Get(cu, a)
    /\ \A a \in Actors : Get(VMerge(cu, cv), a) >= Get(cu, a)

\* a clock that lacks an actor after operations on a clock that held it
ActorPruned ==
    /\ DOMAIN cu # Actors
    /\ DOMAIN cv = Actors
    /\ Intersection(cv, cu) # EmptyClock

\* C20 -- VClock inc is total and pure: for every clock and actor, the
\* counter u64::MAX included, inc returns the dot (a, get(a) + 1), whose
\* counter is strictly greater than get(a), so that an Up carrying it passes
\* the guard of Map::apply (which drops a dot with get(a) >= counter).
IncTotal ==
    \A a \in Actors :
        /\ ~IncOverflows(cu, a)
        /\ Inc(cu, a).actor = a
        /\ Inc(cu, a).counter = Get(cu, a) + 1
        /\ ~(Get(cu, a) >= Inc(cu, a).counter)

\* C17 -- merge replays the peer's deferred removes: after L.merge(R), every
\* record (clock, key) of R.deferred is either listed in the result's
\* deferred, when clock is not <= the merged clock, or else not listed, and
\* the result's entry for key, if any, keeps no actor whose counter is <=
\* clock.get(actor).
MergeReplaysDeferred ==
    \A l, r \in Replicas : \A ord \in OrdersFor({rep[l], rep[r]}) :
        LET M == Merge(rep[l], rep[r], Depth, ord)
        IN  \A p \in DeferredPairs(rep[r].deferred) :
              IF Leq(p.clock, M.clock)
              THEN /\ ~Listed(M, p.clock, p.key)
                   /\ p.key \in DOMAIN M.entries =>
                         \A a \in DOMAIN M.entries[p.key].clock :
                             M.entries[p.key].clock[a] > Get(p.clock, a)
              ELSE Listed(M, p.clock, p.key)

\* the Rm ops a replica may be handed: built from their fields, or by rm
\* with the context read from a replica
SomeRms == LiteralRms \cup {RmOp(rep[q], k) : q \in Replicas, k \in WideKeys}

\* C19 -- frame of Rm: applying Rm{clock, key} leaves the Map's clock and the
\* entries under the other keys as they were; when clock is not <= the Map's
\* clock, key is listed in deferred[clock] and the entry for key keeps exactly
\* its dots that clock does not dominate (no entry if none remain); a replica
\* with clock {1->1} and an entry of clock {1->1} that applies Rm of clock
\* {1->2} ends with no entry, deferred {{1->2} -> {key}} and clock {1->1}.
RmFrame ==
    \A r \in Replicas : \A op \in SomeRms : \A ord \in OrdersFor({rep[r]}) :
        LET m == rep[r]
            n == Apply(m, op, Depth, ord)
            old == IF op.key \in DOMAIN m.entries THEN m.entries[op.key].clock ELSE EmptyClock
            rest == [a \in {b \in DOMAIN old : old[b] > Get(op.clock, b)} |-> old[a]]
        IN  /\ n.clock = m.clock
            /\ \A k \in WideKeys \ {op.key} :
                  /\ k \in DOMAIN n.entries <=> k \in DOMAIN m.entries
                  /\ k \in DOMAIN m.entries => n.entries[k] = m.entries[k]
            /\ ~Leq(op.clock, m.clock) =>
                  /\ Listed(n, op.clock, op.key)
                  /\ op.key \in DOMAIN n.entries <=> rest # EmptyClock
                  /\ op.key \in DOMAIN n.entries => n.entries[op.key].clock = rest
            /\ (/\ m.clock = (1 :> 1)
                /\ DOMAIN m.entries = {op.key}
                /\ old = (1 :> 1)
                /\ m.deferred = <<>>
                /\ op.clock = (1 :> 2))
                  => n = [clock |-> (1 :> 1), entries |-> <<>>,
                          deferred |-> ((1 :> 2) :> {op.key})]

\* the replica of the example after the Rm
RmExampleApplied ==
    \E r \in Replicas : \E k \in WideKeys :
        rep[r] = [clock |-> (1 :> 1), entries |-> <<>>, deferred |-> ((1 :> 2) :> {k})]

\* C12 -- read-then-remove: get(k) returns the Map's clock as add_clock and
\* the entry's clock as rm_clock (the empty clock when k is absent); applying
\* rm(k, get(k).derive_rm_ctx()) to the state read removes the entry for k,
\* adds no record to deferred and leaves the other entries and the Map's
\* clock unchanged.
ReadThenRemove ==
    \A r \in Replicas : \A k \in WideKeys : \A ord \in OrdersFor({rep[r]}) :
        LET m == rep[r]
            n == Apply(m, RmOp(m, k), Depth, ord)
        IN  /\ GetCtx(m, k).add_clock = m.clock
            /\ GetCtx(m, k).rm_clock =
                  (IF k \in DOMAIN m.entries THEN m.entries[k].clock ELSE EmptyClock)
            /\ k \in DOMAIN m.entries =>
                  /\ k \notin DOMAIN n.entries
                  /\ n.deferred = m.deferred
                  /\ n.clock = m.clock
                  /\ DOMAIN n.entries = DOMAIN m.entries \ {k}
                  /\ \A j \in DOMAIN n.entries : n.entries[j] = m.entries[j]

\* a replica that has removed the entry of one key beside the entry of
\* another, with nothing deferred: its clock holds a dot no entry holds
RemovedBesideEntry ==
    \E r \in Replicas :
        /\ rep[r].deferred = <<>>
        /\ Cardinality(DOMAIN rep[r].entries) = 1
        /\ \E a \in DOMAIN rep[r].clock : \A k \in DOMAIN rep[r].entries :
              Get(rep[r].entries[k].clock, a) = 0

\* the Map res holds key, its value holds no dot of an inner entry that the
\* value witnessed held, and holds the inner entry ik with the dot d
NestedOutcome(res, witnessed, key, d, ik) ==
    /\ key \in DOMAIN res.entries
    /\ LET v == res.entries[key].val
       IN  /\ \A j \in DOMAIN witnessed.entries :
                 j \in DOMAIN v.entries =>
                     \A a \in DOMAIN v.entries[j].clock :
                         v.entries[j].clock[a] > Get(witnessed.entries[j].clock, a)
           /\ ik \in DOMAIN v.entries
           /\ Get(v.entries[ik].clock, d.actor) = d.counter

\* replica r removes key with the clock it read, replica q updates key by
\* adding the inner entry ik, and the two exchange the ops, or merge
NestedRemoveAt(r, q, key, ik) ==
    LET rm == RmOp(rep[r], key)
        d == Inc(GetCtx(rep[q], key).add_clock, q)
        up == UpOp(d, key, UpOp(d, ik, LeafOp))
        X == Apply(rep[r], rm, Depth, "asc")
        Y == Apply(rep[q], up, Depth, "asc")
    IN  \A res \in {Apply(X, up, Depth, "asc"), Apply(Y, rm, Depth, "asc"),
                    Merge(X, Y, Depth, "asc"), Merge(Y, X, Depth, "asc")} :
            NestedOutcome(res, rep[r].entries[key].val, key, d, ik)

\* C11 -- nested map composition: when one replica removes an outer key with
\* the clock it read for it while another replica applies an update adding
\* an inner entry under that key, a dot the remover has not seen, then after
\* the two exchange the ops or merge, the outer key is present, no inner
\* entry the remover had witnessed remains, and the inner entry added is
\* there.
NestedComposition ==
    \A r \in Replicas : \A q \in Actors \ {r} : \A k \in DOMAIN rep[r].entries :
        Get(rep[r].clock, q) <= Get(rep[q].clock, q)
            => \A ik \in WideKeys : NestedRemoveAt(r, q, k, ik)

\* C18 -- Map truncate keeps deferred removes: after truncate(arg), a record
\* (clock, keys) of deferred whose clock minus arg is empty is gone, and
\* otherwise every key of keys is listed under the remainder, also when two
\* clocks leave the same remainder; and the result is the same in whatever
\* order the records are visited.
TruncateKeepsDeferred ==
    \A r \in Replicas : \A arg \in TruncateClocks :
        /\ \A ord \in OrdersFor({rep[r]}) :
              LET n == Truncate(rep[r], arg, Depth, ord)
              IN  /\ EmptyClock \notin DOMAIN n.deferred
                  /\ \A c \in DOMAIN rep[r].deferred : \A k \in rep[r].deferred[c] :
                        Subtract(c, arg) # EmptyClock => Listed(n, Subtract(c, arg), k)
        /\ \A o1, o2 \in OrdersFor({rep[r]}) :
              Truncate(rep[r], arg, Depth, o1) = Truncate(rep[r], arg, Depth, o2)

\* C21 -- no drained deferred record is left pending: in every state reached
\* by apply and merge, no clock that is a key of deferred is <= the Map's
\* clock; neither is one after the apply of an Rm built from its fields.
NoPendingDrained ==
    \A r \in Replicas :
        /\ \A c \in DOMAIN rep[r].deferred : ~Leq(c, rep[r].clock)
        /\ \A op \in LiteralRms : \A ord \in OrdersFor({rep[r]}) :
              LET n == Apply(rep[r], op, Depth, ord)
              IN  \A c \in DOMAIN n.deferred : ~Leq(c, n.clock)

\* an Rm that one replica still lists in deferred has been applied by a
\* replica whose clock now dominates the Rm's clock
RmDrainedElsewhere ==
    \E r, q \in Replicas : \E op \in seen[r] \cap seen[q] :
        /\ op.type = "Rm"
        /\ Listed(rep[q], op.clock, op.key)
        /\ Leq(op.clock, rep[r].clock)
        /\ \E up \in seen[r] \ seen[q] : up.type = "Up"

\* C22 -- no entry with an empty clock: in every state reached by apply,
\* merge and truncate, every entry of a Map, and every entry of a Map held
\* as a value, has a non-empty clock.
NoEmptyEntryClock ==
    \A r \in Replicas : \A k \in DOMAIN rep[r].entries :
        /\ ~IsEmpty(rep[r].entries[k].clock)
        /\ \A ik \in DOMAIN rep[r].entries[k].val.entries :
              ~IsEmpty(rep[r].entries[k].val.entries[ik].clock)

\* a replica has dropped the entry of a key, every dot of which (as another
\* replica still holds them) it has seen, and holds an entry under another key
EntryDropped ==
    \E r, q \in Replicas : \E k \in DOMAIN rep[q].entries :
        /\ k \notin DOMAIN rep[r].entries
        /\ Leq(rep[q].entries[k].clock, rep[r].clock)
        /\ DOMAIN rep[r].entries # {}

\* C23 -- the empty map is the identity of merge: for every state A reached
\* by apply and merge, A.merge(Map::new()) leaves A unchanged, and
\* Map::new() after merge(A) equals A.
EmptyMapIdentity ==
    \A r \in Replicas : \A ord \in OrdersFor({rep[r]}) :
        /\ Merge(rep[r], NewMap, Depth, ord) = rep[r]
        /\ Merge(NewMap, rep[r], Depth, ord) = rep[r]

\* a replica holds an entry with inner entries next to a deferred remove
MapWithEntryAndDeferred ==
    \E r \in Replicas : \E k \in DOMAIN rep[r].entries :
        /\ rep[r].deferred # <<>>
        /\ rep[r].entries[k].val.entries # <<>>

====
